---- MODULE Spec2Model ----
(***************************************************************************)
(* Model of the support-ticket workflow (SupportTicketsService and the     *)
(* admin AdminSupportTicketService/Controller), of the public blog-post    *)
(* endpoints and of the contact-message / newsletter delete endpoints.     *)
(*                                                                         *)
(* The database tables are the state.  Handlers whose check-then-act       *)
(* sequence matters (createReopenRequest, processReopenRequest) are split  *)
(* at their awaited ORM calls; every other handler is one action.          *)
(***************************************************************************)
EXTENDS Integers, Sequences, FiniteSets, TLC

VARIABLES tickets, requests, replies, pc, response, posts, messages, subscribers, accounts, processLog

vars == <<tickets, requests, replies, pc, response, posts, messages, subscribers, accounts, processLog>>

(***************************************************************************)
(* Bounds of the model                                                     *)
(***************************************************************************)
MaxWorkflowTickets == 1
MaxTickets == 2
MaxRequests == 2
MaxReplies == 2
MaxPosts == 2
MaxViews == 2
MaxMessages == 2
MaxSubscribers == 2
MaxUserUpdates == 2

(***************************************************************************)
(* Users, roles, PermissionUtils                                           *)
(***************************************************************************)
NULL == "null"

\* rows of the users table: id |-> roles
UserRoles ==
  [u1 |-> {"user"}, u2 |-> {"user"}, s1 |-> {"user", "support"}, a1 |-> {"admin"}]

Users == DOMAIN UserRoles

\* an id that is no row of the users table
UnknownUser == "ghost"

\* the roles a request carries: the caller's roles, none when unauthenticated
RolesOf(u) == IF u \in Users THEN UserRoles[u] ELSE {}

isAdmin(roles) == "admin" \in roles

isStaff(roles) ==
  \E role \in roles : role \in {"admin", "staff", "support", "developer"}

Customers == {"u1", "u2"}
Procs == {"p1", "p2"}

TicketStatus == {"OPEN", "IN_PROGRESS", "RESOLVED", "CLOSED"}

\* the request bodies createTicket is called with
TicketDtos ==
  { [title |-> "login", priority |-> NULL],
    [title |-> "billing", priority |-> "HIGH"] }

DefaultDto == [title |-> "login", priority |-> NULL]

(***************************************************************************)
(* Responses                                                               *)
(***************************************************************************)
Resp(op, caller, outcome) ==
  [op |-> op, caller |-> caller, outcome |-> outcome,
   arg |-> 0, tickets |-> {}, replies |-> {}, posts |-> {}, total |-> 0]

NoResponse == Resp("none", NULL, "none")

Idle == [op |-> "idle", step |-> "idle", t |-> 0, r |-> 0, approve |-> FALSE, u |-> NULL]

TicketIds == 1..Len(tickets)
RequestIds == 1..Len(requests)

ReplyIds == 1..Len(replies)

(***************************************************************************)
(* SupportTicketsService                                                   *)
(***************************************************************************)
\* createTicket: prisma.supportTicket.create
CreateTicket(u, dto) ==
  /\ tickets' = Append(tickets,
        [createdById |-> u,
         title |-> dto.title,
         priority |-> IF dto.priority = NULL THEN "NORMAL" ELSE dto.priority,
         status |-> "OPEN",
         assignedToId |-> NULL,
         closedAt |-> FALSE])
  /\ response' = Resp("createTicket", u, "ok")
  /\ UNCHANGED <<requests, replies, pc, posts, messages, subscribers, accounts, processLog>>

\* outcome of the permission part of getTicketById
GetTicketByIdOutcome(t, u, roles) ==
  IF t \notin TicketIds THEN "NotFound: Ticket not found"
  ELSE IF ~isStaff(roles) /\ tickets[t].createdById # u
       THEN "Forbidden: You can only view your own tickets"
       ELSE "ok"

\* updateTicket with dto.status set
UpdateTicket(t, status, u) ==
  LET roles == RolesOf(u)
      found == GetTicketByIdOutcome(t, u, roles)
  IN
  /\ UNCHANGED <<requests, replies, pc, posts, messages, subscribers, accounts, processLog>>
  /\ IF found # "ok"
       THEN /\ response' = Resp("updateTicket", u, found)
            /\ UNCHANGED tickets
     ELSE IF ~isStaff(roles)
       THEN /\ response' = Resp("updateTicket", u, "Forbidden: Access denied. Staff role required.")
            /\ UNCHANGED tickets
     ELSE /\ tickets' = [tickets EXCEPT ![t] =
                 [@ EXCEPT !.status = status,
                           !.closedAt =
                              IF status \in {"CLOSED", "RESOLVED"} THEN TRUE
                              ELSE IF tickets[t].status \in {"CLOSED", "RESOLVED"} THEN FALSE
                              ELSE @]]
          /\ response' = Resp("updateTicket", u, "ok")

\* assignTicket of SupportTicketsService
SvcAssignTicket(t, assigneeId, u) ==
  LET outcome ==
        IF ~isStaff(RolesOf(u)) THEN "Forbidden: Access denied. Staff role required."
        ELSE IF t \notin TicketIds THEN "NotFound: Ticket not found"
        ELSE IF assigneeId # NULL /\ assigneeId \notin Users THEN "NotFound: Assignee not found"
        ELSE IF assigneeId # NULL /\ ~isStaff(UserRoles[assigneeId])
             THEN "BadRequest: Assignee must be a staff member"
        ELSE "ok"
  IN
  /\ response' = [Resp("assignTicket", u, outcome) EXCEPT !.arg = t]
  /\ tickets' = IF outcome = "ok"
                  THEN [tickets EXCEPT ![t] =
                          [@ EXCEPT !.assignedToId = assigneeId,
                                    !.status = IF assigneeId # NULL THEN "IN_PROGRESS" ELSE "OPEN"]]
                  ELSE tickets
  /\ UNCHANGED <<requests, replies, pc, posts, messages, subscribers, accounts, processLog>>

\* the checks of createReply on the ticket getTicketById returned
CreateReplyOutcome(t, u, roles, isInternal) ==
  LET found == GetTicketByIdOutcome(t, u, roles)
      isTicketOwner == tickets[t].createdById = u
      isAssignedStaff == isStaff(roles) /\ tickets[t].assignedToId = u
  IN
  IF found # "ok" THEN found
  ELSE IF isInternal /\ ~isAssignedStaff
       THEN "Forbidden: Only assigned staff members can create internal replies"
  ELSE IF ~isInternal /\ ~isTicketOwner /\ ~isAssignedStaff
       THEN "Forbidden: You can only reply to your own tickets or tickets assigned to you"
  ELSE "ok"

\* createReply: prisma.ticketReply.create
CreateReply(t, u, isInternal) ==
  LET outcome == CreateReplyOutcome(t, u, RolesOf(u), isInternal)
  IN
  /\ response' = [Resp("createReply", u, outcome) EXCEPT !.arg = t]
  /\ replies' = IF outcome = "ok"
                  THEN Append(replies, [ticketId |-> t, authorId |-> u, isInternal |-> isInternal])
                  ELSE replies
  /\ UNCHANGED <<tickets, requests, pc, posts, messages, subscribers, accounts, processLog>>

\* the replies relation of a ticket, as getTicketById includes it
RepliesOf(t) == {rp \in ReplyIds : replies[rp].ticketId = t}

\* getTicketById: the ticket with all its replies
GetTicketById(t, u) ==
  LET outcome == GetTicketByIdOutcome(t, u, RolesOf(u))
  IN
  /\ response' = IF outcome = "ok"
                   THEN [Resp("getTicketById", u, outcome) EXCEPT
                            !.arg = t, !.tickets = {t}, !.replies = RepliesOf(t), !.total = 1]
                   ELSE [Resp("getTicketById", u, outcome) EXCEPT !.arg = t]
  /\ UNCHANGED <<tickets, requests, replies, pc, posts, messages, subscribers, accounts, processLog>>

\* the values a filter of TicketQueryDto takes; NULL is an absent filter
TicketQueries ==
  [status : {NULL, "OPEN"}, priority : {NULL, "HIGH"}, search : {NULL, "login"},
   assigneeId : {NULL, "u1", "s1"}, creatorId : {NULL, "u1", "u2"}]

\* GetTicketsOutcome without the check on the creatorId filter
GetTicketsOutcome_NoCreatorCheck(u, roles, query) ==
  IF query.assigneeId # NULL /\ ~isStaff(roles) /\ query.assigneeId # u
    THEN "Forbidden: You can only filter tickets assigned to yourself"
  ELSE "ok"

\* the exception getTickets throws while it builds the where clause
GetTicketsOutcome(u, roles, query) ==
  IF query.assigneeId # NULL /\ ~isStaff(roles) /\ query.assigneeId # u
    THEN "Forbidden: You can only filter tickets assigned to yourself"
  ELSE IF query.creatorId # NULL /\ ~isStaff(roles) /\ query.creatorId # u
    THEN "Forbidden: You can only filter tickets created by yourself"
  ELSE "ok"

\* the where clause of getTickets; NULL is an absent condition
GetTicketsWhere(u, roles, query) ==
  [createdById |-> IF query.creatorId # NULL THEN query.creatorId
                   ELSE IF ~isStaff(roles) THEN u ELSE NULL,
   status |-> IF isStaff(roles) THEN query.status ELSE NULL,
   assignedToId |-> query.assigneeId,
   priority |-> query.priority,
   search |-> query.search]

\* prisma's evaluation of a where clause on support_tickets
TicketsMatching(where) ==
  {t \in TicketIds :
     /\ where.createdById # NULL => tickets[t].createdById = where.createdById
     /\ where.status # NULL => tickets[t].status = where.status
     /\ where.assignedToId # NULL => tickets[t].assignedToId = where.assignedToId
     /\ where.priority # NULL => tickets[t].priority = where.priority
     /\ where.search # NULL => tickets[t].title = where.search}

\* replies: { take: 1, orderBy: { createdAt: 'desc' } }
LatestReplyOf(t) ==
  {rp \in RepliesOf(t) : \A other \in RepliesOf(t) : other <= rp}

\* getTickets
GetTickets(u, query) ==
  LET roles == RolesOf(u)
      outcome == GetTicketsOutcome(u, roles, query)
      found == TicketsMatching(GetTicketsWhere(u, roles, query))
  IN
  /\ response' = IF outcome = "ok"
                   THEN [Resp("getTickets", u, outcome) EXCEPT
                            !.tickets = found,
                            !.replies = UNION {LatestReplyOf(t) : t \in found},
                            !.total = Cardinality(found)]
                   ELSE Resp("getTickets", u, outcome)
  /\ UNCHANGED <<tickets, requests, replies, pc, posts, messages, subscribers, accounts, processLog>>

\* baseWhere of getStats
GetStatsWhere(u, roles) ==
  [createdById |-> IF isStaff(roles) THEN NULL ELSE u,
   status |-> NULL, assignedToId |-> NULL, priority |-> NULL, search |-> NULL]

\* getStats: total is prisma.supportTicket.count({ where: baseWhere })
GetStats(u) ==
  /\ response' = [Resp("getStats", u, "ok") EXCEPT
                     !.total = Cardinality(TicketsMatching(GetStatsWhere(u, RolesOf(u))))]
  /\ UNCHANGED <<tickets, requests, replies, pc, posts, messages, subscribers, accounts, processLog>>

\* CrrGetTicket without the check that the ticket is CLOSED
CrrGetTicket_NoClosedCheck(p, t, u) ==
  LET found == GetTicketByIdOutcome(t, u, {})
      outcome ==
        IF found # "ok" THEN found
        ELSE IF tickets[t].createdById # u THEN "Forbidden: You can only reopen your own tickets"
        ELSE "ok"
  IN
  /\ pc[p] = Idle
  /\ UNCHANGED <<tickets, requests, replies, posts, messages, subscribers, accounts, processLog>>
  /\ IF outcome = "ok"
       THEN /\ pc' = [pc EXCEPT ![p] = [Idle EXCEPT !.op = "createReopenRequest",
                                                  !.step = "findPending", !.t = t, !.u = u]]
            /\ UNCHANGED response
       ELSE /\ response' = Resp("createReopenRequest", u, outcome)
            /\ UNCHANGED pc

\* createReopenRequest, up to the return of getTicketById and the two checks on it
CrrGetTicket(p, t, u) ==
  LET found == GetTicketByIdOutcome(t, u, {})
      outcome ==
        IF found # "ok" THEN found
        ELSE IF tickets[t].createdById # u THEN "Forbidden: You can only reopen your own tickets"
        ELSE IF tickets[t].status # "CLOSED" THEN "BadRequest: Only closed tickets can be reopened"
        ELSE "ok"
  IN
  /\ pc[p] = Idle
  /\ UNCHANGED <<tickets, requests, replies, posts, messages, subscribers, accounts, processLog>>
  /\ IF outcome = "ok"
       THEN /\ pc' = [pc EXCEPT ![p] = [Idle EXCEPT !.op = "createReopenRequest",
                                                  !.step = "findPending", !.t = t, !.u = u]]
            /\ UNCHANGED response
       ELSE /\ response' = Resp("createReopenRequest", u, outcome)
            /\ UNCHANGED pc

\* createReopenRequest: prisma.ticketReopenRequest.findFirst({ticketId, status: PENDING})
CrrFindPending(p) ==
  /\ pc[p].op = "createReopenRequest"
  /\ pc[p].step = "findPending"
  /\ UNCHANGED <<tickets, requests, replies, posts, messages, subscribers, accounts, processLog>>
  /\ IF \E r \in RequestIds : requests[r].ticketId = pc[p].t /\ requests[r].status = "PENDING"
       THEN /\ response' = Resp("createReopenRequest", pc[p].u,
                                "BadRequest: A reopen request is already pending for this ticket")
            /\ pc' = [pc EXCEPT ![p] = Idle]
       ELSE /\ pc' = [pc EXCEPT ![p].step = "create"]
            /\ UNCHANGED response

\* createReopenRequest: prisma.ticketReopenRequest.create
CrrCreate(p) ==
  /\ pc[p].op = "createReopenRequest"
  /\ pc[p].step = "create"
  /\ requests' = Append(requests,
        [ticketId |-> pc[p].t, requestedById |-> pc[p].u, status |-> "PENDING",
         reviewedById |-> NULL, reviewedAt |-> FALSE])
  /\ response' = Resp("createReopenRequest", pc[p].u, "ok")
  /\ pc' = [pc EXCEPT ![p] = Idle]
  /\ UNCHANGED <<tickets, replies, posts, messages, subscribers, accounts, processLog>>

\* processReopenRequest, up to the return of findUnique and the PENDING check
SvcPrrFind(p, r, approve, u) ==
  LET outcome ==
        IF ~isStaff(RolesOf(u)) THEN "Forbidden: Access denied. Staff role required."
        ELSE IF r \notin RequestIds THEN "NotFound: Reopen request not found"
        ELSE IF requests[r].status # "PENDING"
             THEN "BadRequest: This reopen request has already been processed"
        ELSE "ok"
  IN
  /\ pc[p] = Idle
  /\ UNCHANGED <<tickets, requests, replies, posts, messages, subscribers, accounts, processLog>>
  /\ IF outcome = "ok"
       THEN /\ pc' = [pc EXCEPT ![p] = [op |-> "processReopenRequest", step |-> "writeRequest",
                                        t |-> requests[r].ticketId, r |-> r,
                                        approve |-> approve, u |-> u]]
            /\ UNCHANGED response
       ELSE /\ response' = Resp("processReopenRequest", u, outcome)
            /\ UNCHANGED pc

\* the row a processReopenRequest writes into ticket_reopen_requests
ReviewedRequest(req, approve, u) ==
  [req EXCEPT !.status = IF approve THEN "APPROVED" ELSE "REJECTED",
              !.reviewedById = u,
              !.reviewedAt = TRUE]

\* ReopenedTicket with closedAt left as it was
ReopenedTicket_KeepsClosedAt(ticket) ==
  [ticket EXCEPT !.status = "OPEN"]

\* the row an approval writes into support_tickets
ReopenedTicket(ticket) ==
  [ticket EXCEPT !.status = "OPEN", !.closedAt = FALSE]

\* SvcPrrWriteRequest as it would be inside one transaction with the ticket write
SvcPrrWriteRequest_Transactional(p) ==
  /\ pc[p].op = "processReopenRequest"
  /\ pc[p].step = "writeRequest"
  /\ requests' = [requests EXCEPT ![pc[p].r] = ReviewedRequest(@, pc[p].approve, pc[p].u)]
  /\ tickets' = IF pc[p].approve THEN [tickets EXCEPT ![pc[p].t] = ReopenedTicket(@)] ELSE tickets
  /\ pc' = [pc EXCEPT ![p] = Idle]
  /\ response' = Resp("processReopenRequest", pc[p].u, "ok")
  /\ UNCHANGED <<replies, posts, messages, subscribers, accounts, processLog>>

\* processReopenRequest: prisma.ticketReopenRequest.update
SvcPrrWriteRequest(p) ==
  /\ pc[p].op = "processReopenRequest"
  /\ pc[p].step = "writeRequest"
  /\ requests' = [requests EXCEPT ![pc[p].r] = ReviewedRequest(@, pc[p].approve, pc[p].u)]
  /\ UNCHANGED <<tickets, replies, posts, messages, subscribers, accounts, processLog>>
  /\ IF pc[p].approve
       THEN /\ pc' = [pc EXCEPT ![p].step = "writeTicket"]
            /\ UNCHANGED response
       ELSE /\ pc' = [pc EXCEPT ![p] = Idle]
            /\ response' = Resp("processReopenRequest", pc[p].u, "ok")

\* processReopenRequest: prisma.supportTicket.update of an approved request
SvcPrrWriteTicket(p) ==
  /\ pc[p].op = "processReopenRequest"
  /\ pc[p].step = "writeTicket"
  /\ tickets' = [tickets EXCEPT ![pc[p].t] = ReopenedTicket(@)]
  /\ response' = Resp("processReopenRequest", pc[p].u, "ok")
  /\ pc' = [pc EXCEPT ![p] = Idle]
  /\ UNCHANGED <<requests, replies, posts, messages, subscribers, accounts, processLog>>

\* an awaited ORM call rejects (or the process stops): the handler logs and rethrows
CallFails(p) ==
  /\ pc[p] # Idle
  /\ response' = Resp(pc[p].op, pc[p].u, "InternalError")
  /\ pc' = [pc EXCEPT ![p] = Idle]
  /\ UNCHANGED <<tickets, requests, replies, posts, messages, subscribers, accounts, processLog>>

(***************************************************************************)
(* AdminSupportTicketController / AdminSupportTicketService                *)
(***************************************************************************)
\* RolesGuard with @Roles('admin','staff','support','developer') and requireStaff
AdminAccess(u) ==
  IF isStaff(RolesOf(u)) THEN "ok" ELSE "Forbidden: Access denied. Staff role required."

\* the line logAdminAction writes to the process log
AuditLine(adminUserId, action) ==
  [level |-> "log", action |-> action, adminUserId |-> adminUserId]

\* the line the catch block of logAdminAction writes
AuditFailedLine == [level |-> "error", action |-> "Failed to log admin action", adminUserId |-> NULL]

\* LogAdminAction without its try/catch: a failed write is thrown to the caller
LogAdminAction_NoCatch(adminUserId, action, logFails) ==
  [thrown |-> logFails,
   lines |-> IF logFails THEN {} ELSE {AuditLine(adminUserId, action)}]

\* logAdminAction: try { logger.log(...) } catch { logger.error(...) }; logFails is
\* the write in the try block failing.  It returns what it throws and what it logs
LogAdminAction(adminUserId, action, logFails) ==
  [thrown |-> FALSE,
   lines |-> IF logFails THEN {AuditFailedLine} ELSE {AuditLine(adminUserId, action)}]

\* the catch blocks of the admin handlers: an exception after the database writes
\* is rethrown and answered as an error
AfterLog(outcome, logged) ==
  IF outcome = "ok" /\ logged.thrown THEN "InternalError" ELSE outcome

\* admin processReopenRequest, up to the return of findUnique
AdminPrrFind(p, r, approve, u) ==
  LET outcome ==
        IF AdminAccess(u) # "ok" THEN AdminAccess(u)
        ELSE IF r \notin RequestIds THEN "NotFound: Reopen request not found"
        ELSE "ok"
  IN
  /\ pc[p] = Idle
  /\ UNCHANGED <<tickets, requests, replies, posts, messages, subscribers, accounts, processLog>>
  /\ IF outcome = "ok"
       THEN /\ pc' = [pc EXCEPT ![p] = [op |-> "adminProcessReopenRequest", step |-> "writeRequest",
                                        t |-> requests[r].ticketId, r |-> r,
                                        approve |-> approve, u |-> u]]
            /\ UNCHANGED response
       ELSE /\ response' = Resp("adminProcessReopenRequest", u, outcome)
            /\ UNCHANGED pc

\* admin processReopenRequest: prisma.ticketReopenRequest.update
AdminPrrWriteRequest(p) ==
  /\ pc[p].op = "adminProcessReopenRequest"
  /\ pc[p].step = "writeRequest"
  /\ requests' = [requests EXCEPT ![pc[p].r] = ReviewedRequest(@, pc[p].approve, pc[p].u)]
  /\ UNCHANGED <<tickets, replies, posts, messages, subscribers, accounts>>
  /\ IF pc[p].approve
       THEN /\ pc' = [pc EXCEPT ![p].step = "writeTicket"]
            /\ UNCHANGED <<response, processLog>>
       ELSE \E logFails \in BOOLEAN :
              LET logged == LogAdminAction(pc[p].u, "REOPEN_REQUEST_PROCESS", logFails)
              IN /\ pc' = [pc EXCEPT ![p] = Idle]
                 /\ response' = Resp("adminProcessReopenRequest", pc[p].u, AfterLog("ok", logged))
                 /\ processLog' = logged.lines

\* admin processReopenRequest: prisma.supportTicket.update of an approved request
AdminPrrWriteTicket(p) ==
  /\ pc[p].op = "adminProcessReopenRequest"
  /\ pc[p].step = "writeTicket"
  /\ tickets' = [tickets EXCEPT ![pc[p].t] = ReopenedTicket(@)]
  /\ \E logFails \in BOOLEAN :
       LET logged == LogAdminAction(pc[p].u, "REOPEN_REQUEST_PROCESS", logFails)
       IN /\ response' = Resp("adminProcessReopenRequest", pc[p].u, AfterLog("ok", logged))
          /\ processLog' = logged.lines
  /\ pc' = [pc EXCEPT ![p] = Idle]
  /\ UNCHANGED <<requests, replies, posts, messages, subscribers, accounts>>

\* the foreign key support_tickets.assignedToId -> users.id
AssigneeKeyHolds(assigneeId) == assigneeId = NULL \/ assigneeId \in Users

\* assignTicket of AdminSupportTicketService on the current ticket table
AdminAssigned(tks, t, assigneeId) ==
  IF t \in DOMAIN tks /\ AssigneeKeyHolds(assigneeId)
    THEN [tks EXCEPT ![t] = [@ EXCEPT !.assignedToId = assigneeId]]
    ELSE tks

\* PUT admin/support-tickets/:ticketId/assign
AdminAssignTicket(t, assigneeId, u) ==
  LET outcome ==
        IF AdminAccess(u) # "ok" THEN AdminAccess(u)
        ELSE IF t \notin TicketIds THEN "NotFound: Support ticket not found"
        ELSE IF ~AssigneeKeyHolds(assigneeId) THEN "InternalError"
        ELSE "ok"
  IN
  /\ \E logFails \in BOOLEAN :
       LET logged == LogAdminAction(u, "TICKET_ASSIGNMENT", logFails)
       IN /\ response' = [Resp("adminAssignTicket", u, AfterLog(outcome, logged)) EXCEPT !.arg = t]
          /\ processLog' = IF outcome = "ok" THEN logged.lines ELSE {}
  /\ tickets' = IF outcome = "ok" THEN AdminAssigned(tickets, t, assigneeId) ELSE tickets
  /\ UNCHANGED <<requests, replies, pc, posts, messages, subscribers, accounts>>

\* bulkAssignTickets: assignTicket on each id in turn, a failed one is skipped
RECURSIVE BulkAssigned(_, _, _)
BulkAssigned(tks, ticketIds, assigneeId) ==
  IF ticketIds = << >> THEN tks
  ELSE BulkAssigned(AdminAssigned(tks, Head(ticketIds), assigneeId), Tail(ticketIds), assigneeId)

\* POST admin/support-tickets/bulk-assign
BulkAssignTickets(ticketIds, assigneeId, u) ==
  LET outcome == AdminAccess(u)
  IN
  /\ \E logFails \in BOOLEAN :
       LET logged == LogAdminAction(u, "BULK_TICKET_ASSIGNMENT", logFails)
       IN /\ response' = Resp("bulkAssignTickets", u, AfterLog(outcome, logged))
          /\ processLog' = IF outcome = "ok" THEN logged.lines ELSE {}
  /\ tickets' = IF outcome = "ok" THEN BulkAssigned(tickets, ticketIds, assigneeId) ELSE tickets
  /\ UNCHANGED <<requests, replies, pc, posts, messages, subscribers, accounts>>

\* the reply addInternalNote creates
InternalNote(t, u) == [ticketId |-> t, authorId |-> u, isInternal |-> TRUE]

\* POST admin/support-tickets/:ticketId/internal-note
AddInternalNote(t, u) ==
  LET outcome ==
        IF AdminAccess(u) # "ok" THEN AdminAccess(u)
        ELSE IF t \notin TicketIds THEN "InternalError"
        ELSE "ok"
  IN
  /\ response' = [Resp("addInternalNote", u, outcome) EXCEPT !.arg = t]
  /\ replies' = IF outcome = "ok" THEN Append(replies, InternalNote(t, u)) ELSE replies
  /\ UNCHANGED <<tickets, requests, pc, posts, messages, subscribers, accounts, processLog>>

\* PUT admin/support-tickets/:ticketId/status
AdminUpdateTicketStatus(t, status, u, internalNotes) ==
  LET outcome ==
        IF AdminAccess(u) # "ok" THEN AdminAccess(u)
        ELSE IF t \notin TicketIds THEN "NotFound: Support ticket not found"
        ELSE "ok"
  IN
  /\ \E logFails \in BOOLEAN :
       LET logged == LogAdminAction(u, "TICKET_STATUS_UPDATE", logFails)
       IN /\ response' = [Resp("updateTicketStatus", u, AfterLog(outcome, logged)) EXCEPT !.arg = t]
          /\ processLog' = IF outcome = "ok" THEN logged.lines ELSE {}
  /\ tickets' = IF outcome = "ok"
                  THEN [tickets EXCEPT ![t] =
                          [@ EXCEPT !.status = status,
                                    !.closedAt = IF status = "CLOSED" THEN TRUE
                                                 ELSE IF status = "OPEN" /\ @ THEN FALSE
                                                 ELSE @]]
                  ELSE tickets
  /\ replies' = IF outcome = "ok" /\ internalNotes
                  THEN Append(replies, InternalNote(t, u))
                  ELSE replies
  /\ UNCHANGED <<requests, pc, posts, messages, subscribers, accounts>>

\* the row deleteTicket writes into support_tickets
DeletedTicket(ticket) ==
  [ticket EXCEPT !.status = "CLOSED", !.closedAt = TRUE]

\* DELETE admin/support-tickets/:ticketId
DeleteTicket(t, u, confirmDeletion) ==
  LET outcome ==
        IF AdminAccess(u) # "ok" THEN AdminAccess(u)
        ELSE IF ~confirmDeletion THEN "Error: Deletion must be confirmed"
        ELSE IF ~isAdmin(RolesOf(u)) THEN "Forbidden: Access denied. Admin role required."
        ELSE IF t \notin TicketIds THEN "NotFound: Support ticket not found"
        ELSE "ok"
  IN
  /\ \E logFails \in BOOLEAN :
       LET logged == LogAdminAction(u, "TICKET_DELETED", logFails)
       IN /\ response' = [Resp("deleteTicket", u, AfterLog(outcome, logged)) EXCEPT !.arg = t]
          /\ processLog' = IF outcome = "ok" THEN logged.lines ELSE {}
  /\ tickets' = IF outcome = "ok" THEN [tickets EXCEPT ![t] = DeletedTicket(@)] ELSE tickets
  /\ UNCHANGED <<requests, replies, pc, posts, messages, subscribers, accounts>>

(***************************************************************************)
(* BlogPostsService and the public endpoints of BlogPostsController        *)
(***************************************************************************)
Slugs == {"intro", "news", "draft"}

PostIds == 1..Len(posts)

\* createBlogPost
CreateBlogPost(slug, published) ==
  LET outcome ==
        IF \E i \in PostIds : posts[i].slug = slug
          THEN "BadRequest: A blog post with this slug already exists"
          ELSE "ok"
  IN
  /\ response' = Resp("createBlogPost", NULL, outcome)
  /\ posts' = IF outcome = "ok"
                THEN Append(posts, [slug |-> slug, published |-> published, views |-> 0])
                ELSE posts
  /\ UNCHANGED <<tickets, requests, replies, pc, messages, subscribers, accounts, processLog>>

\* the where clause of getBlogPosts on the published and minViews filters;
\* query.published is the set of the values given for it: none or one
BlogPostsMatching(query) ==
  {i \in PostIds :
     /\ query.published # {} => posts[i].published \in query.published
     /\ query.minViews >= 0 => posts[i].views >= query.minViews}

\* getPublishedBlogPosts: { ...query, published: true }
PublishedQuery(query) == [query EXCEPT !.published = {TRUE}]

\* GET /public/blog-posts
GetPublicBlogPosts(query) ==
  LET found == BlogPostsMatching(PublishedQuery(query))
  IN
  /\ response' = [Resp("getPublicBlogPosts", NULL, "ok") EXCEPT
                     !.posts = found, !.total = Cardinality(found)]
  /\ UNCHANGED <<tickets, requests, replies, pc, posts, messages, subscribers, accounts, processLog>>

\* getBlogPostById: the view count after the call
ViewsAfterGetById(post, incrementView) ==
  IF incrementView THEN post.views + 1 ELSE post.views

\* getBlogPostBySlug: the view count after the call
ViewsAfterGetBySlug(post, incrementView) ==
  IF incrementView /\ post.published THEN post.views + 1 ELSE post.views

\* GET /public/blog-posts/:id
GetPublicBlogPostById(i, incrementViews) ==
  /\ UNCHANGED <<tickets, requests, replies, pc, messages, subscribers, accounts, processLog>>
  /\ IF i \notin PostIds
       THEN /\ response' = [Resp("getPublicBlogPostById", NULL, "NotFound: Blog post not found")
                              EXCEPT !.arg = i]
            /\ UNCHANGED posts
       ELSE /\ posts' = [posts EXCEPT ![i].views = ViewsAfterGetById(posts[i], incrementViews)]
            /\ response' = [Resp("getPublicBlogPostById", NULL, "ok")
                              EXCEPT !.arg = i, !.posts = {i}, !.total = 1]

\* GET /public/blog-posts/slug/:slug
GetPublicBlogPostBySlug(slug, incrementViews) ==
  /\ UNCHANGED <<tickets, requests, replies, pc, messages, subscribers, accounts, processLog>>
  /\ IF \A i \in PostIds : posts[i].slug # slug
       THEN /\ response' = Resp("getPublicBlogPostBySlug", NULL, "NotFound: Blog post not found")
            /\ UNCHANGED posts
       ELSE LET i == CHOOSE j \in PostIds : posts[j].slug = slug
            IN /\ posts' = [posts EXCEPT ![i].views = ViewsAfterGetBySlug(posts[i], incrementViews)]
               /\ response' = [Resp("getPublicBlogPostBySlug", NULL, "ok")
                                 EXCEPT !.arg = i, !.posts = {i}, !.total = 1]

(***************************************************************************)
(* Contact messages and newsletter subscribers                             *)
(***************************************************************************)
Emails == {"a@shifaul.dev", "b@shifaul.dev"}

\* POST /contact-messages
CreateContactMessage ==
  /\ messages' = [next |-> messages.next + 1, rows |-> messages.rows \cup {messages.next}]
  /\ response' = [Resp("createContactMessage", NULL, "ok") EXCEPT !.arg = messages.next]
  /\ UNCHANGED <<tickets, requests, replies, pc, posts, subscribers, accounts, processLog>>

\* POST /newsletter/subscribe
SubscribeNewsletter(email) ==
  LET outcome ==
        IF \E row \in subscribers.rows : row.email = email
          THEN "BadRequest: Email is already subscribed to the newsletter"
          ELSE "ok"
  IN
  /\ response' = Resp("subscribeNewsletter", NULL, outcome)
  /\ subscribers' = IF outcome = "ok"
                      THEN [next |-> subscribers.next + 1,
                            rows |-> subscribers.rows \cup {[id |-> subscribers.next, email |-> email]}]
                      ELSE subscribers
  /\ UNCHANGED <<tickets, requests, replies, pc, posts, messages, accounts, processLog>>

\* deleteContactMessage of both contact-message services: findUnique, then delete
ContactMessageDeleted(id) ==
  IF id \in messages.rows THEN "ok" ELSE "BadRequest: Contact message not found"

\* deleteNewsletterSubscriber of both newsletter services: findUnique, then delete
NewsletterSubscriberDeleted(id) ==
  IF \E row \in subscribers.rows : row.id = id
    THEN "ok" ELSE "BadRequest: Newsletter subscriber not found"

\* the checks of the admin delete endpoints before the service is called
AdminDeleteAccess(u, confirmDeletion) ==
  IF AdminAccess(u) # "ok" THEN AdminAccess(u)
  ELSE IF ~confirmDeletion THEN "Error: Deletion must be confirmed"
  ELSE IF ~isAdmin(RolesOf(u)) THEN "Forbidden: Access denied. Admin role required."
  ELSE "ok"

\* the checks of the public delete endpoints before the service is called
PublicDeleteAccess(u) == "ok"

\* DELETE /contact-messages/:id
DeleteContactMessage(id, u) ==
  LET outcome == IF PublicDeleteAccess(u) # "ok" THEN PublicDeleteAccess(u)
                 ELSE ContactMessageDeleted(id)
  IN
  /\ response' = [Resp("deleteContactMessage", u, outcome) EXCEPT !.arg = id]
  /\ messages' = IF outcome = "ok" THEN [messages EXCEPT !.rows = @ \ {id}] ELSE messages
  /\ UNCHANGED <<tickets, requests, replies, pc, posts, subscribers, accounts, processLog>>

\* DELETE /admin/contact-messages/:id
AdminDeleteContactMessage(id, u, confirmDeletion) ==
  LET outcome == IF AdminDeleteAccess(u, confirmDeletion) # "ok"
                   THEN AdminDeleteAccess(u, confirmDeletion)
                   ELSE ContactMessageDeleted(id)
  IN
  /\ \E logFails \in BOOLEAN :
       LET logged == LogAdminAction(u, "CONTACT_MESSAGE_DELETED", logFails)
       IN /\ response' = [Resp("adminDeleteContactMessage", u, AfterLog(outcome, logged)) EXCEPT !.arg = id]
          /\ processLog' = IF outcome = "ok" THEN logged.lines ELSE {}
  /\ messages' = IF outcome = "ok" THEN [messages EXCEPT !.rows = @ \ {id}] ELSE messages
  /\ UNCHANGED <<tickets, requests, replies, pc, posts, subscribers, accounts>>

\* DELETE /newsletter/subscribers/:id
DeleteNewsletterSubscriber(id, u) ==
  LET outcome == IF PublicDeleteAccess(u) # "ok" THEN PublicDeleteAccess(u)
                 ELSE NewsletterSubscriberDeleted(id)
  IN
  /\ response' = [Resp("deleteNewsletterSubscriber", u, outcome) EXCEPT !.arg = id]
  /\ subscribers' = IF outcome = "ok"
                      THEN [subscribers EXCEPT !.rows = {row \in @ : row.id # id}]
                      ELSE subscribers
  /\ UNCHANGED <<tickets, requests, replies, pc, posts, messages, accounts, processLog>>

\* DELETE /admin/newsletter-subscribers/:id
AdminDeleteNewsletterSubscriber(id, u, confirmDeletion) ==
  LET outcome == IF AdminDeleteAccess(u, confirmDeletion) # "ok"
                   THEN AdminDeleteAccess(u, confirmDeletion)
                   ELSE NewsletterSubscriberDeleted(id)
  IN
  /\ \E logFails \in BOOLEAN :
       LET logged == LogAdminAction(u, "NEWSLETTER_SUBSCRIBER_DELETED", logFails)
       IN /\ response' = [Resp("adminDeleteNewsletterSubscriber", u, AfterLog(outcome, logged)) EXCEPT !.arg = id]
          /\ processLog' = IF outcome = "ok" THEN logged.lines ELSE {}
  /\ subscribers' = IF outcome = "ok"
                      THEN [subscribers EXCEPT !.rows = {row \in @ : row.id # id}]
                      ELSE subscribers
  /\ UNCHANGED <<tickets, requests, replies, pc, posts, messages, accounts>>

(***************************************************************************)
(* AdminUserController / AdminUserService                                  *)
(***************************************************************************)
UserStatus == {"ACTIVE", "INACTIVE", "SUSPENDED", "DELETED"}

\* a row of the users table as registration leaves it; updatedAt counts the writes
ActiveAccount == [status |-> "ACTIVE", suspended |-> FALSE, updatedAt |-> 0]

\* RolesGuard with @Roles('admin') on AdminUserController
AdminUserAccess(u) ==
  IF isAdmin(RolesOf(u)) THEN "ok" ELSE "Forbidden"

\* the two usersService.findById lookups each AdminUserService write starts with
FindUsers(id, adminId) ==
  IF AdminUserAccess(adminId) # "ok" THEN AdminUserAccess(adminId)
  ELSE IF id \notin DOMAIN accounts THEN "NotFound: User not found"
  ELSE IF adminId \notin DOMAIN accounts THEN "NotFound: Admin user not found"
  ELSE "ok"

\* PUT admin/users/:id with status in the body
UpdateUser(id, status, adminId) ==
  LET outcome == FindUsers(id, adminId)
  IN
  /\ response' = [Resp("updateUser", adminId, outcome) EXCEPT !.arg = id]
  /\ accounts' = IF outcome = "ok"
                   THEN [accounts EXCEPT ![id] =
                           [@ EXCEPT !.status = status, !.updatedAt = @ + 1]]
                   ELSE accounts
  /\ UNCHANGED <<tickets, requests, replies, pc, posts, messages, subscribers, processLog>>

\* POST admin/users/:id/suspend
SuspendUser(id, adminId) ==
  LET outcome == FindUsers(id, adminId)
  IN
  /\ response' = [Resp("suspendUser", adminId, outcome) EXCEPT !.arg = id]
  /\ accounts' = IF outcome = "ok"
                   THEN [accounts EXCEPT ![id] =
                           [status |-> "SUSPENDED", suspended |-> TRUE,
                            updatedAt |-> @.updatedAt + 1]]
                   ELSE accounts
  /\ UNCHANGED <<tickets, requests, replies, pc, posts, messages, subscribers, processLog>>

\* POST admin/users/:id/reactivate
ReactivateUser(id, adminId) ==
  LET outcome == FindUsers(id, adminId)
  IN
  /\ response' = [Resp("reactivateUser", adminId, outcome) EXCEPT !.arg = id]
  /\ accounts' = IF outcome = "ok"
                   THEN [accounts EXCEPT ![id] =
                           [status |-> "ACTIVE", suspended |-> FALSE,
                            updatedAt |-> @.updatedAt + 1]]
                   ELSE accounts
  /\ UNCHANGED <<tickets, requests, replies, pc, posts, messages, subscribers, processLog>>

\* the row deleteUser writes into users: data is { updatedAt: new Date() }
DeletedUser(account) == [account EXCEPT !.updatedAt = @ + 1]

\* DELETE admin/users/:id
DeleteUser(id, adminId) ==
  LET outcome == FindUsers(id, adminId)
  IN
  /\ response' = [Resp("deleteUser", adminId, outcome) EXCEPT !.arg = id]
  /\ accounts' = IF outcome = "ok"
                   THEN [accounts EXCEPT ![id] = DeletedUser(@)]
                   ELSE accounts
  /\ UNCHANGED <<tickets, requests, replies, pc, posts, messages, subscribers, processLog>>

\* the response of the finished request is sent to its client; the audit lines the
\* request wrote are output of the process, no state of a later request
Deliver ==
  /\ response # NoResponse
  /\ response' = NoResponse
  /\ processLog' = {}
  /\ UNCHANGED <<tickets, requests, replies, pc, posts, messages, subscribers, accounts>>

(***************************************************************************)
(* Specifications                                                          *)
(***************************************************************************)
Init ==
  /\ tickets = << >>
  /\ requests = << >>
  /\ replies = << >>
  /\ pc = [p \in Procs |-> Idle]
  /\ response = NoResponse
  /\ posts = << >>
  /\ messages = [next |-> 1, rows |-> {}]
  /\ subscribers = [next |-> 1, rows |-> {}]
  /\ accounts = [u \in Users |-> ActiveAccount]
  /\ processLog = {}

\* the operations of SupportTicketsService on tickets and reopen requests
ServiceOps ==
  \/ /\ Len(tickets) < MaxWorkflowTickets
     /\ CreateTicket("u1", DefaultDto)
  \/ \E t \in 1..MaxWorkflowTickets, status \in TicketStatus, u \in {"u1", "s1"} :
        UpdateTicket(t, status, u)
  \/ \E p \in Procs, t \in 1..MaxWorkflowTickets, u \in Customers :
        /\ Len(requests) + Cardinality({q \in Procs : pc[q].op = "createReopenRequest"}) < MaxRequests
        /\ CrrGetTicket(p, t, u)
  \/ \E p \in Procs : CrrFindPending(p)
  \/ \E p \in Procs : CrrCreate(p)
  \/ \E p \in Procs, r \in 1..MaxRequests, approve \in BOOLEAN, u \in {"u1", "s1"} :
        SvcPrrFind(p, r, approve, u)
  \/ \E p \in Procs : SvcPrrWriteRequest(p)
  \/ \E p \in Procs : SvcPrrWriteTicket(p)
  \/ \E p \in Procs : CallFails(p)

\* a handler runs when no response is waiting to be sent
NextService == (response = NoResponse /\ ServiceOps) \/ Deliver

SpecService == Init /\ [][NextService]_vars

\* the ticket workflow through both services
WorkflowOps ==
  \/ ServiceOps
  \/ \E p \in Procs, r \in 1..MaxRequests, approve \in BOOLEAN, u \in {"u1", "a1"} :
        AdminPrrFind(p, r, approve, u)
  \/ \E p \in Procs : AdminPrrWriteRequest(p)
  \/ \E p \in Procs : AdminPrrWriteTicket(p)
  \/ \E t \in 1..MaxWorkflowTickets, u \in {"u1", "s1", "a1"}, confirmDeletion \in BOOLEAN :
        DeleteTicket(t, u, confirmDeletion)

Next == (response = NoResponse /\ WorkflowOps) \/ Deliver

Spec == Init /\ [][Next]_vars

\* assignment and replies through both services
AccessOps ==
  \/ \E u \in Customers :
        /\ Len(tickets) < MaxTickets
        /\ CreateTicket(u, DefaultDto)
  \/ \E t \in 1..MaxTickets, assigneeId \in {NULL, "u2", "s1", UnknownUser}, u \in {"u1", "s1"} :
        SvcAssignTicket(t, assigneeId, u)
  \/ \E t \in 1..MaxTickets, assigneeId \in {NULL, "u2", "s1", UnknownUser}, u \in {"u1", "a1"} :
        AdminAssignTicket(t, assigneeId, u)
  \/ \E ticketIds \in {<<1>>, <<1, 2>>, <<2, 1, MaxTickets + 1>>}, assigneeId \in {"u2", "s1"}, u \in {"u1", "a1"} :
        BulkAssignTickets(ticketIds, assigneeId, u)
  \/ \E t \in 1..MaxTickets, u \in Users, isInternal \in BOOLEAN :
        /\ Len(replies) < MaxReplies
        /\ CreateReply(t, u, isInternal)
  \/ \E t \in 1..MaxTickets, u \in {"u1", "a1"} :
        /\ Len(replies) < MaxReplies
        /\ AddInternalNote(t, u)
  \/ \E t \in 1..MaxTickets, status \in TicketStatus, u \in {"u1", "a1"}, internalNotes \in BOOLEAN :
        /\ Len(replies) < MaxReplies
        /\ AdminUpdateTicketStatus(t, status, u, internalNotes)

NextAccess == (response = NoResponse /\ AccessOps) \/ Deliver

SpecAccess == Init /\ [][NextAccess]_vars

\* the read operations of SupportTicketsService over tickets and replies
ReadOps ==
  \/ \E u \in Customers, dto \in TicketDtos :
        /\ Len(tickets) < MaxTickets
        /\ CreateTicket(u, dto)
  \/ \E t \in 1..MaxTickets, assigneeId \in {NULL, "s1"}, u \in {"s1"} :
        SvcAssignTicket(t, assigneeId, u)
  \/ \E t \in 1..MaxTickets, u \in {"u1", "u2", "s1"}, isInternal \in BOOLEAN :
        /\ Len(replies) < MaxReplies
        /\ CreateReply(t, u, isInternal)
  \/ \E t \in 1..MaxTickets, u \in {"a1"} :
        /\ Len(replies) < MaxReplies
        /\ AddInternalNote(t, u)
  \/ \E t \in 1..MaxTickets, u \in {"u1", "s1"} : GetTicketById(t, u)
  \/ \E u \in {"u1", "s1"}, query \in TicketQueries : GetTickets(u, query)
  \/ \E u \in {"u1", "s1"} : GetStats(u)

NextRead == (response = NoResponse /\ ReadOps) \/ Deliver

SpecRead == Init /\ [][NextRead]_vars

\* the blog posts and their public endpoints
BlogOps ==
  \/ \E slug \in Slugs, published \in BOOLEAN :
        /\ Len(posts) < MaxPosts
        /\ CreateBlogPost(slug, published)
  \/ \E query \in [published : {{}, {TRUE}, {FALSE}}, minViews : {-1, 1}] :
        GetPublicBlogPosts(query)
  \/ \E i \in 1..MaxPosts, incrementViews \in BOOLEAN :
        /\ i \in PostIds => posts[i].views < MaxViews
        /\ GetPublicBlogPostById(i, incrementViews)
  \/ \E slug \in Slugs, incrementViews \in BOOLEAN :
        /\ \A i \in PostIds : posts[i].views < MaxViews
        /\ GetPublicBlogPostBySlug(slug, incrementViews)

NextBlog == (response = NoResponse /\ BlogOps) \/ Deliver

SpecBlog == Init /\ [][NextBlog]_vars

\* contact messages and newsletter subscribers with their delete endpoints
DeleteOps ==
  \/ /\ messages.next <= MaxMessages
     /\ CreateContactMessage
  \/ \E email \in Emails :
        /\ subscribers.next <= MaxSubscribers
        /\ SubscribeNewsletter(email)
  \/ \E id \in 1..MaxMessages, u \in {NULL, "u1"} : DeleteContactMessage(id, u)
  \/ \E id \in 1..MaxMessages, u \in {NULL, "u1", "s1", "a1"}, confirmDeletion \in BOOLEAN :
        AdminDeleteContactMessage(id, u, confirmDeletion)
  \/ \E id \in 1..MaxSubscribers, u \in {NULL, "u1"} : DeleteNewsletterSubscriber(id, u)
  \/ \E id \in 1..MaxSubscribers, u \in {NULL, "u1", "s1", "a1"}, confirmDeletion \in BOOLEAN :
        AdminDeleteNewsletterSubscriber(id, u, confirmDeletion)

NextDelete == (response = NoResponse /\ DeleteOps) \/ Deliver

SpecDelete == Init /\ [][NextDelete]_vars

\* the user accounts through AdminUserController
UserOps ==
  \/ \E id \in {"u1", "u2", UnknownUser}, status \in {"INACTIVE", "DELETED"}, adminId \in {"a1", "s1"} :
        /\ id \in DOMAIN accounts => accounts[id].updatedAt < MaxUserUpdates
        /\ UpdateUser(id, status, adminId)
  \/ \E id \in {"u1", "u2", UnknownUser}, adminId \in {"a1", "s1"} :
        /\ id \in DOMAIN accounts => accounts[id].updatedAt < MaxUserUpdates
        /\ SuspendUser(id, adminId)
  \/ \E id \in {"u1", "u2", UnknownUser}, adminId \in {"a1", "s1"} :
        /\ id \in DOMAIN accounts => accounts[id].updatedAt < MaxUserUpdates
        /\ ReactivateUser(id, adminId)
  \/ \E id \in {"u1", "u2", UnknownUser}, adminId \in {"a1", "s1"} :
        /\ id \in DOMAIN accounts => accounts[id].updatedAt < MaxUserUpdates
        /\ DeleteUser(id, adminId)

NextUsers == (response = NoResponse /\ UserOps) \/ Deliver

SpecUsers == Init /\ [][NextUsers]_vars

\* reopen requests: tickets are closed and reopened while owners, other users and
\* staff call createReopenRequest
ReopenOps ==
  \/ /\ Len(tickets) < MaxWorkflowTickets
     /\ CreateTicket("u1", DefaultDto)
  \/ \E t \in 1..MaxWorkflowTickets, status \in TicketStatus, u \in {"s1"} :
        UpdateTicket(t, status, u)
  \/ \E p \in Procs, t \in 1..(MaxWorkflowTickets + 1), u \in {"u1", "u2", "s1"} :
        /\ Len(requests) + Cardinality({q \in Procs : pc[q].op = "createReopenRequest"}) < MaxRequests
        /\ CrrGetTicket(p, t, u)
  \/ \E p \in Procs : CrrFindPending(p)
  \/ \E p \in Procs : CrrCreate(p)
  \/ \E p \in Procs : CallFails(p)

NextReopen == (response = NoResponse /\ ReopenOps) \/ Deliver

SpecReopen == Init /\ [][NextReopen]_vars

\* the admin operations that call logAdminAction
AuditOps ==
  \/ /\ Len(tickets) < MaxTickets
     /\ CreateTicket("u1", DefaultDto)
  \/ \E t \in 1..MaxTickets, assigneeId \in {NULL, "s1", UnknownUser}, u \in {"u1", "a1"} :
        AdminAssignTicket(t, assigneeId, u)
  \/ \E ticketIds \in {<<1>>, <<2, 1, MaxTickets + 1>>}, assigneeId \in {"s1"}, u \in {"u1", "a1"} :
        BulkAssignTickets(ticketIds, assigneeId, u)
  \/ \E t \in 1..MaxTickets, status \in {"OPEN", "CLOSED"}, u \in {"u1", "a1"}, internalNotes \in BOOLEAN :
        /\ Len(replies) < MaxReplies
        /\ AdminUpdateTicketStatus(t, status, u, internalNotes)
  \/ \E t \in 1..MaxTickets, u \in {"s1", "a1"}, confirmDeletion \in BOOLEAN :
        DeleteTicket(t, u, confirmDeletion)
  \/ /\ messages.next <= MaxMessages
     /\ CreateContactMessage
  \/ \E id \in 1..MaxMessages, u \in {"s1", "a1"}, confirmDeletion \in BOOLEAN :
        AdminDeleteContactMessage(id, u, confirmDeletion)

NextAudit == (response = NoResponse /\ AuditOps) \/ Deliver

SpecAudit == Init /\ [][NextAudit]_vars

(***************************************************************************)
(* Properties                                                              *)
(***************************************************************************)
\* C1: a reopen request is processed at most once through
\* SupportTicketsService.processReopenRequest: once its status is not PENDING
\* no call changes the request again
C1_ProcessedAtMostOnce ==
  [][\A r \in RequestIds : requests[r].status # "PENDING" => requests'[r] = requests[r]]_vars

\* C2: each ticket has at most one reopen request with status PENDING
C2_AtMostOnePending ==
  \A t \in TicketIds :
    Cardinality({r \in RequestIds : requests[r].ticketId = t /\ requests[r].status = "PENDING"}) <= 1

\* C3: the write that sets a request to APPROVED and the write that reopens its
\* ticket are separate steps: the step that approves a request changes no ticket
C3_ApprovalNotTransactional ==
  [][\A r \in RequestIds :
        (requests[r].status # "APPROVED" /\ requests'[r].status = "APPROVED")
          => tickets' = tickets]_vars

\* an approval is between its two writes: the request is APPROVED and its ticket CLOSED
C3_Witness ==
  \E p \in Procs :
    /\ pc[p].step = "writeTicket"
    /\ requests[pc[p].r].status = "APPROVED"
    /\ tickets[pc[p].t].status = "CLOSED"

\* C8: after a successful admin deleteTicket the ticket no longer exists
C8_DeletedTicketIsGone ==
  (response.op = "deleteTicket" /\ response.outcome = "ok")
    => GetTicketByIdOutcome(response.arg, response.caller, RolesOf(response.caller))
         = "NotFound: Ticket not found"


\* C4: a caller without a staff role is never returned a reply whose isInternal is true
C4_InternalRepliesStaffOnly ==
  (response.op \in {"getTicketById", "getTickets"} /\ ~isStaff(RolesOf(response.caller)))
    => \A rp \in response.replies : ~replies[rp].isInternal

\* C5: every reply with isInternal = true is created by a user who holds a staff
\* role and is the ticket's assignee at that moment
C5_InternalRepliesByAssignedStaff ==
  [][Len(replies') > Len(replies) =>
       LET reply == replies'[Len(replies')]
       IN reply.isInternal =>
            /\ isStaff(RolesOf(reply.authorId))
            /\ tickets[reply.ticketId].assignedToId = reply.authorId]_vars

\* the tickets a caller created
OwnTickets(u) == {t \in TicketIds : tickets[t].createdById = u}

\* C6: to a caller without a staff role getTicketById, getTickets and getStats
\* return data only about tickets the caller created, and a request for another
\* user's ticket fails with Forbidden 'You can only view your own tickets'
C6_NonStaffSeeOwnTicketsOnly ==
  (response.op \in {"getTicketById", "getTickets", "getStats"} /\ ~isStaff(RolesOf(response.caller)))
    => /\ response.tickets \subseteq OwnTickets(response.caller)
       /\ \A rp \in response.replies : replies[rp].ticketId \in OwnTickets(response.caller)
       /\ response.total <= Cardinality(OwnTickets(response.caller))
       /\ response.op = "getStats" => response.total = Cardinality(OwnTickets(response.caller))
       /\ (response.op = "getTicketById" /\ response.arg \in TicketIds \ OwnTickets(response.caller))
            => response.outcome = "Forbidden: You can only view your own tickets"

\* a non-staff caller lists tickets while another user's ticket exists, and gets its own
C6_Witness ==
  /\ response.op = "getTickets"
  /\ response.outcome = "ok"
  /\ ~isStaff(RolesOf(response.caller))
  /\ response.tickets # {}
  /\ TicketIds \ OwnTickets(response.caller) # {}

\* C7: a ticket's assignee is null or an existing user with a staff role
C7_AssigneeIsStaff ==
  \A t \in TicketIds :
    \/ tickets[t].assignedToId = NULL
    \/ /\ tickets[t].assignedToId \in Users
       /\ isStaff(UserRoles[tickets[t].assignedToId])

\* C9: the public blog endpoints never return a post with published = false; for
\* an unpublished post by-id and by-slug answer not found and leave its views alone
C9_PublicPostsArePublished ==
  [][response'.op \in {"getPublicBlogPosts", "getPublicBlogPostById", "getPublicBlogPostBySlug"}
       => /\ \A i \in response'.posts : posts[i].published
          /\ \A i \in PostIds :
               (~posts[i].published /\ response'.arg = i)
                 => /\ response'.outcome \notin {"ok"}
                    /\ posts'[i].views = posts[i].views]_vars

\* C10: a contact message or newsletter subscriber is removed by id only on a
\* request from a caller with the admin role that carries confirmDeletion = true
C10_OnlyAdminDeletes ==
  [][(messages'.rows # messages.rows \cup messages'.rows
        \/ subscribers'.rows # subscribers.rows \cup subscribers'.rows)
       => \E u \in Users, id \in 1..(MaxMessages + MaxSubscribers) :
            /\ isAdmin(RolesOf(u))
            /\ \/ AdminDeleteContactMessage(id, u, TRUE)
               \/ AdminDeleteNewsletterSubscriber(id, u, TRUE)]_vars
\* C11: after a successful deleteUser(id) the user's row no longer exists or has
\* status DELETED
C11_DeletedUserIsGone ==
  [][(response'.op = "deleteUser" /\ response'.outcome = "ok")
       => \/ response'.arg \notin DOMAIN accounts'
          \/ accounts'[response'.arg].status = "DELETED"]_vars
\* C12: createReopenRequest goes past its checks only for the ticket's creator on a
\* ticket it read as CLOSED; any other caller gets Forbidden, a ticket in another
\* status gets BadRequest 'Only closed tickets can be reopened', neither creates a
\* request, and a request is only ever created by a call that passed the checks
C12_ReopenRequestGuards ==
  [][/\ \A p \in Procs, t \in TicketIds, u \in Users :
          CrrGetTicket(p, t, u) =>
            /\ requests' = requests
            /\ tickets[t].createdById # u =>
                 /\ response'.outcome \in {"Forbidden: You can only view your own tickets",
                                           "Forbidden: You can only reopen your own tickets"}
                 /\ pc' = pc
            /\ (tickets[t].createdById = u /\ tickets[t].status # "CLOSED") =>
                 /\ response'.outcome = "BadRequest: Only closed tickets can be reopened"
                 /\ pc' = pc
     /\ \A p \in Procs :
          (pc[p] = Idle /\ pc'[p].op = "createReopenRequest") =>
            /\ tickets[pc'[p].t].createdById = pc'[p].u
            /\ tickets[pc'[p].t].status = "CLOSED"
     /\ Len(requests') > Len(requests) =>
          \E p \in Procs :
            /\ pc[p].op = "createReopenRequest"
            /\ tickets[pc[p].t].createdById = pc[p].u
            /\ requests'[Len(requests')].ticketId = pc[p].t
            /\ requests'[Len(requests')].requestedById = pc[p].u]_vars

\* the owner's second call is refused on the reopened ticket after a first one succeeded
C12_Witness ==
  /\ requests # << >>
  /\ response.op = "createReopenRequest"
  /\ response.outcome = "BadRequest: Only closed tickets can be reopened"
\* C13: in both services the request write of processReopenRequest sets the request
\* to APPROVED or REJECTED with reviewer and review time and changes no ticket; only
\* an approval goes on to the ticket write, which sets that ticket to OPEN with
\* closedAt null and changes nothing else
C13_ProcessEffects ==
  [][\A p \in Procs :
       /\ (/\ pc[p].op \in {"processReopenRequest", "adminProcessReopenRequest"}
           /\ pc[p].step = "writeRequest"
           /\ \/ pc'[p].step = "writeTicket"
              \/ pc'[p] = Idle /\ response'.outcome = "ok")
            => /\ requests' = [requests EXCEPT ![pc[p].r] =
                     [ticketId |-> requests[pc[p].r].ticketId,
                      requestedById |-> requests[pc[p].r].requestedById,
                      status |-> IF pc[p].approve THEN "APPROVED" ELSE "REJECTED",
                      reviewedById |-> pc[p].u,
                      reviewedAt |-> TRUE]]
               /\ tickets' = tickets
               /\ pc[p].approve <=> pc'[p].step = "writeTicket"
       /\ (/\ pc[p].op \in {"processReopenRequest", "adminProcessReopenRequest"}
           /\ pc[p].step = "writeTicket"
           /\ pc'[p] = Idle /\ response'.outcome = "ok")
            => /\ pc[p].approve
               /\ pc[p].t = requests[pc[p].r].ticketId
               /\ tickets' = [tickets EXCEPT ![pc[p].t] =
                     [createdById |-> tickets[pc[p].t].createdById,
                      title |-> tickets[pc[p].t].title,
                      priority |-> tickets[pc[p].t].priority,
                      status |-> "OPEN",
                      assignedToId |-> tickets[pc[p].t].assignedToId,
                      closedAt |-> FALSE]]
               /\ requests' = requests]_vars

\* an approval through the admin service has finished on a ticket that had closedAt set
C13_Witness ==
  /\ response.op = "adminProcessReopenRequest"
  /\ response.outcome = "ok"
  /\ \E r \in RequestIds :
       /\ requests[r].status = "APPROVED"
       /\ requests[r].reviewedById = response.caller
       /\ tickets[requests[r].ticketId].status = "OPEN"
       /\ ~tickets[requests[r].ticketId].closedAt
\* the responses of the operations that call logAdminAction
AuditedOps ==
  {"adminAssignTicket", "bulkAssignTickets", "updateTicketStatus", "deleteTicket",
   "adminDeleteContactMessage"}

\* C14: logAdminAction only writes to the process log.  An operation that reached
\* its audit call answers ok whether the log write failed or not, an operation that
\* wrote to the database answers ok, and when the log write failed the tables hold
\* exactly the operation's own effect
C14_AuditOnlyLogs ==
  [][/\ processLog' # processLog /\ processLog' # {}
          => response'.op \in AuditedOps /\ response'.outcome = "ok"
     /\ (/\ response'.op \in AuditedOps
         /\ tickets' # tickets \/ replies' # replies \/ messages' # messages)
          => response'.outcome = "ok" /\ processLog' # {}
     /\ processLog' = {AuditFailedLine} =>
          /\ requests' = requests /\ posts' = posts /\ subscribers' = subscribers
          /\ accounts' = accounts /\ pc' = pc
          /\ \A t \in TicketIds, assigneeId \in Users \cup {NULL}, u \in Users :
               AdminAssignTicket(t, assigneeId, u)
                 => /\ tickets' = AdminAssigned(tickets, t, assigneeId)
                    /\ replies' = replies /\ messages' = messages
          /\ \A ticketIds \in {<<1>>, <<2, 1, MaxTickets + 1>>}, assigneeId \in Users, u \in Users :
               BulkAssignTickets(ticketIds, assigneeId, u)
                 => /\ tickets' = BulkAssigned(tickets, ticketIds, assigneeId)
                    /\ replies' = replies /\ messages' = messages
          /\ \A t \in TicketIds, status \in TicketStatus, u \in Users, internalNotes \in BOOLEAN :
               AdminUpdateTicketStatus(t, status, u, internalNotes)
                 => /\ tickets'[t].status = status
                    /\ \A other \in TicketIds \ {t} : tickets'[other] = tickets[other]
                    /\ replies' = IF internalNotes THEN Append(replies, InternalNote(t, u)) ELSE replies
                    /\ messages' = messages
          /\ \A t \in TicketIds, u \in Users :
               DeleteTicket(t, u, TRUE)
                 => /\ tickets' = [tickets EXCEPT ![t] = DeletedTicket(@)]
                    /\ replies' = replies /\ messages' = messages
          /\ \A id \in messages.rows, u \in Users :
               AdminDeleteContactMessage(id, u, TRUE)
                 => /\ messages'.rows = messages.rows \ {id}
                    /\ tickets' = tickets /\ replies' = replies]_vars

\* an assignment went through although its audit line could not be written
C14_Witness ==
  /\ processLog = {AuditFailedLine}
  /\ response.op = "adminAssignTicket"
  /\ response.outcome = "ok"
  /\ tickets[response.arg].assignedToId = "s1"
====
